---- MODULE Spec2Model ----
(***************************************************************************)
(* Model of tug-stats' classification engine, logic.rs::compute_diff.      *)
(*                                                                         *)
(* A path is a natural number; the order of the numbers is the lexical     *)
(* order of the path strings.  A text is a sequence of line tokens (what   *)
(* InternedInput::new makes of a string); LineBytes gives the byte length  *)
(* of a line, terminator included.  A HashMap<String,String> is a function *)
(* whose domain is the set of its keys.  The iteration order of a HashSet  *)
(* or HashMap is not fixed by the program (std's RandomState): every       *)
(* iteration draws a permutation of the set.                               *)
(***************************************************************************)
EXTENDS Integers, Sequences, FiniteSets, TLC

\* ---------------------------------------------------------------- bounds
NumPaths == 3
WidePaths == 4

Paths == 1..NumPaths

\* line tokens: 1 = "a\n", 2 = "b\n", 3 = "ccccc\n" (a long line); the negated
\* token is the line without its terminator (-1 = "a"), a different token to
\* the line diff
LineBytes(l) ==
    LET terminated == IF l \in {3, -3} THEN 6 ELSE 2
    IN IF l < 0 THEN terminated - 1 ELSE terminated

\* the texts the snapshots are drawn from
Texts == {<< >>, <<1>>, <<1, 2>>}
\* two texts whose similarity is exactly 0.5
HalfTexts == {<<1, 2>>, <<1, 3>>}
WideTexts == {<<1>>, <<1, 2>>}
\* a text with and without its final newline
TrailTexts == {<<1>>, <<-1>>}
\* a short text and the same text with a long line appended
RejectTexts == {<<1>>, <<1, 3>>}

\* ---------------------------------------------------------------- helpers
Max(a, b) == IF a >= b THEN a ELSE b
Min(a, b) == IF a <= b THEN a ELSE b

RECURSIVE GCD(_, _)
GCD(a, b) == IF b = 0 THEN a ELSE GCD(b, a % b)

\* an f64 score in [0,1], kept as the fraction <<n, d>> in lowest terms
Frac(n, d) == LET g == GCD(n, d) IN <<n \div g, d \div g>>
ScoreZero == Frac(0, 1)
ScoreOne == Frac(1, 1)
Threshold == Frac(1, 2)
ScoreGT(a, b) == a[1] * b[2] > b[1] * a[2]

\* every order a hash set S may be iterated in
RECURSIVE Perms(_)
Perms(S) ==
    IF S = {} THEN {<< >>}
    ELSE UNION {{<<x>> \o p : p \in Perms(S \ {x})} : x \in S}

RECURSIVE Ascending(_)
Ascending(S) ==
    IF S = {} THEN << >>
    ELSE LET m == CHOOSE x \in S : \A y \in S : x <= y
         IN <<m>> \o Ascending(S \ {m})

RECURSIVE ByteLen(_)
ByteLen(s) == IF s = << >> THEN 0 ELSE LineBytes(Head(s)) + ByteLen(Tail(s))

\* str::trim_end: no line of these texts is blank, so only the terminator of
\* the last line goes
trim_end(s) ==
    IF s = << >> THEN s
    ELSE [s EXCEPT ![Len(s)] = IF @ > 0 THEN -@ ELSE @]

\* s.lines().count()
LineCount(s) == Len(s)

\* the line-diff primitive (imara_diff, Algorithm::Histogram): the lines the
\* two texts keep in common, in order
RECURSIVE CommonLines(_, _)
CommonLines(a, b) ==
    IF a = << >> \/ b = << >> THEN 0
    ELSE IF Head(a) = Head(b) THEN 1 + CommonLines(Tail(a), Tail(b))
    ELSE Max(CommonLines(Tail(a), b), CommonLines(a, Tail(b)))

\* <<added, removed>> summed over the hunks
calculate_diff_stats(s1, s2) ==
    IF s1 = s2 THEN <<0, 0>>
    ELSE LET k == CommonLines(s1, s2)
         IN <<Len(s2) - k, Len(s1) - k>>

\* the quick length check: one text is less than half the other's byte length
size_disparity(s1, s2) ==
    LET len1 == ByteLen(s1)
        len2 == ByteLen(s2)
        max_len == Max(len1, len2)
        min_len == Min(len1, len2)
    IN 2 * min_len < max_len

\* (total - changes) / total over the hunks of the line diff
line_diff_score(s1, s2) ==
    LET k == CommonLines(s1, s2)
        changes == (Len(s1) - k) + (Len(s2) - k)
        total == Len(s1) + Len(s2)
    IN IF total = 0 THEN ScoreOne
       ELSE Frac(total - changes, total)

calculate_similarity(s1, s2) ==
    IF s1 = s2 THEN ScoreOne
    ELSE IF s1 = << >> \/ s2 = << >> THEN ScoreZero
    ELSE IF size_disparity(s1, s2) THEN ScoreZero
    ELSE line_diff_score(s1, s2)

\* Option<T>
None == << >>
Some(x) == <<x>>

\* filter_map(f).collect() over a Vec: f yields << >> or a one-element sequence
RECURSIVE FlatMap(_, _)
FlatMap(Op(_), s) ==
    IF s = << >> THEN << >> ELSE Op(Head(s)) \o FlatMap(Op, Tail(s))

\* slice::sort_by: a stable sort; Less(x, y) is cmp(x, y) = Ordering::Less
RECURSIVE InsertBy(_, _, _)
InsertBy(Less(_, _), x, s) ==
    IF s = << >> THEN <<x>>
    ELSE IF Less(x, Head(s)) THEN <<x>> \o s
    ELSE <<Head(s)>> \o InsertBy(Less, x, Tail(s))

RECURSIVE StableSort(_, _)
StableSort(Less(_, _), s) ==
    IF s = << >> THEN << >>
    ELSE InsertBy(Less, s[Len(s)], StableSort(Less, SubSeq(s, 1, Len(s) - 1)))

Range(s) == {s[i] : i \in DOMAIN s}

\* ---------------------------------------------------------------- FileStatus
Added(p, n) == [kind |-> "Added", path |-> p, count |-> n]
Deleted(p, n) == [kind |-> "Deleted", path |-> p, count |-> n]
Modified(p, a, r) == [kind |-> "Modified", path |-> p, added |-> a, removed |-> r]
Renamed(o, n, a, r) ==
    [kind |-> "Renamed", old |-> o, new |-> n, added |-> a, removed |-> r]
Copied(s, d, a, r) ==
    [kind |-> "Copied", src |-> s, dest |-> d, added |-> a, removed |-> r]

get_sort_key(status) ==
    CASE status.kind = "Added" -> status.path
      [] status.kind = "Deleted" -> status.path
      [] status.kind = "Modified" -> status.path
      [] status.kind = "Renamed" -> status.new
      [] status.kind = "Copied" -> status.dest

MatchCandidate(a, d, s) == [added_path |-> a, deleted_path |-> d, score |-> s]

\* ---------------------------------------------------------------- state
VARIABLES
    new_files,          \* HashMap path -> text
    old_files,          \* HashMap path -> text
    old_manifest,       \* HashSet of paths
    added_paths,        \* HashSet
    deleted_paths,      \* HashSet, shrinks as renames commit
    common_paths,       \* Vec, in the iteration order of the intersection
    results,            \* Vec<FileStatus>
    rename_candidates,  \* Vec<MatchCandidate>
    final_added_paths,  \* HashSet, shrinks as renames and copies claim
    cursor,             \* position of the serial walk in rename_candidates
    pc                  \* the phase compute_diff is about to run

vars == <<new_files, old_files, old_manifest, added_paths, deleted_paths,
          common_paths, results, rename_candidates, final_added_paths,
          cursor, pc>>

inputs == <<new_files, old_files, old_manifest>>

Snapshots(P, T) == UNION {[D -> T] : D \in SUBSET P}

InitWith(P, T) ==
    /\ new_files \in Snapshots(P, T)
    /\ old_files \in Snapshots(P, T)
    /\ old_manifest \in SUBSET P
    /\ added_paths = {}
    /\ deleted_paths = {}
    /\ common_paths = << >>
    /\ results = << >>
    /\ rename_candidates = << >>
    /\ final_added_paths = {}
    /\ cursor = 0
    /\ pc = "classify"

Init == InitWith(Paths, Texts)

\* ---------------------------------------------------------------- 1. classify
Classify ==
    /\ pc = "classify"
    /\ LET new_paths == DOMAIN new_files
       IN /\ added_paths' = new_paths \ old_manifest
          /\ deleted_paths' = old_manifest \ new_paths
          /\ \E order \in Perms(old_manifest \cap new_paths) :
                common_paths' = order
    /\ pc' = "modifications"
    /\ UNCHANGED <<inputs, results, rename_candidates, final_added_paths, cursor>>

\* ---------------------------------------------------------------- 2. modifications
\* faulty variant: the closure without the old != new test
check_modification_always(path) ==
    IF path \notin DOMAIN old_files \/ path \notin DOMAIN new_files THEN << >>
    ELSE LET st == calculate_diff_stats(old_files[path], new_files[path])
         IN <<Modified(path, st[1], st[2])>>

\* line 27: the two contents differ by trailing whitespace only (logged)
whitespace_only_diff(old, new) == old # new /\ trim_end(old) = trim_end(new)

\* faulty variant: contents compared after trim_end
check_modification_trimmed(path) ==
    IF path \notin DOMAIN old_files \/ path \notin DOMAIN new_files THEN << >>
    ELSE LET old == old_files[path]
             new == new_files[path]
         IN IF trim_end(old) # trim_end(new)
            THEN LET st == calculate_diff_stats(old, new)
                 IN <<Modified(path, st[1], st[2])>>
            ELSE << >>

\* the filter_map closure of lines 22-35: the records one Common path yields
check_modification(path) ==
    IF path \notin DOMAIN old_files \/ path \notin DOMAIN new_files THEN << >>
    ELSE LET old == old_files[path]
             new == new_files[path]
         IN IF old # new
            THEN LET st == calculate_diff_stats(old, new)
                 IN <<Modified(path, st[1], st[2])>>
            ELSE << >>

CheckModifications ==
    /\ pc = "modifications"
    /\ results' = FlatMap(check_modification, common_paths)
    /\ pc' = "score"
    /\ UNCHANGED <<inputs, added_paths, deleted_paths, common_paths,
                   rename_candidates, final_added_paths, cursor>>

\* ---------------------------------------------------------------- 3. renames
\* faulty variant: the threshold taken as "at least 0.5"
at_or_above_threshold(score) == ~ScoreGT(Threshold, score)

\* line 219: the rename threshold
above_threshold(score) == ScoreGT(score, Threshold)

\* faulty variant: a missing content read as the empty text
source_lookup_or_empty(sources, cand) ==
    IF cand \in DOMAIN sources THEN Some(sources[cand]) ELSE Some(<< >>)

\* line 217: the content lookup find_best_match makes for a candidate
source_lookup(sources, cand) ==
    IF cand \in DOMAIN sources THEN Some(sources[cand]) ELSE None

\* faulty variant: the first candidate above the threshold is kept
better_match_keeps_first(best, cand, score) ==
    IF best = None THEN Some(<<cand, score>>) ELSE best

\* lines 220-227: the best so far, after a candidate above the threshold
better_match(best, cand, score) ==
    IF best = None THEN Some(<<cand, score>>)
    ELSE IF ScoreGT(score, best[1][2]) THEN Some(<<cand, score>>)
    ELSE best

\* the loop of find_best_match over the candidates left, in iteration order
RECURSIVE find_best_match_from(_, _, _, _)
find_best_match_from(best, target_content, order, sources) ==
    IF order = << >> THEN best
    ELSE LET cand == Head(order)
             source_content == source_lookup(sources, cand)
             score == calculate_similarity(source_content[1], target_content)
             next == IF source_content # None /\ above_threshold(score)
                     THEN better_match(best, cand, score)
                     ELSE best
         IN find_best_match_from(next, target_content, Tail(order), sources)

find_best_match(target_content, order, sources) ==
    find_best_match_from(None, target_content, order, sources)

\* the filter_map closure of lines 48-58
rename_candidate(added_path, dorder) ==
    LET target_content == new_files[added_path]
        m == find_best_match(target_content, dorder, old_files)
    IN IF m = None THEN << >>
       ELSE <<MatchCandidate(added_path, m[1][1], m[1][2])>>

score_renames(aorder, dorder) ==
    FlatMap(LAMBDA a : rename_candidate(a, dorder), aorder)

ScoreRenames ==
    /\ pc = "score"
    /\ IF \E a \in added_paths : a \notin DOMAIN new_files
       THEN pc' = "panicked" /\ UNCHANGED rename_candidates
       ELSE /\ \E aorder \in Perms(added_paths), dorder \in Perms(deleted_paths) :
                  rename_candidates' = score_renames(aorder, dorder)
            /\ pc' = "sort"
    /\ UNCHANGED <<inputs, added_paths, deleted_paths, common_paths, results,
                   final_added_paths, cursor>>

\* faulty variant: the comparator with its operands the other way round
score_ascending(a, b) == ScoreGT(b.score, a.score)

\* line 62: b.score.partial_cmp(&a.score) = Less
score_descending(a, b) == ScoreGT(a.score, b.score)

\* partial_cmp(..).unwrap() panics on a score that is not a number
comparable(score) == score[2] # 0

SortCandidates ==
    /\ pc = "sort"
    /\ IF \E i \in DOMAIN rename_candidates : ~comparable(rename_candidates[i].score)
       THEN /\ pc' = "panicked"
            /\ UNCHANGED <<rename_candidates, final_added_paths, cursor>>
       ELSE /\ rename_candidates' = StableSort(score_descending, rename_candidates)
            /\ final_added_paths' = added_paths
            /\ cursor' = 1
            /\ pc' = "resolve"
    /\ UNCHANGED <<inputs, added_paths, deleted_paths, common_paths, results>>

\* faulty variant: only the added path is tested
unclaimed_added_only(cand, final_added, deleted) ==
    cand.added_path \in final_added

\* lines 68-69: both paths of the candidate are still unclaimed
unclaimed(cand, final_added, deleted) ==
    cand.added_path \in final_added /\ cand.deleted_path \in deleted

\* lines 71-72: the two direct indexings of the commit
commit_indexable(cand) ==
    cand.deleted_path \in DOMAIN old_files /\ cand.added_path \in DOMAIN new_files

\* lines 75-80
renamed_record(cand) ==
    LET st == calculate_diff_stats(old_files[cand.deleted_path],
                                   new_files[cand.added_path])
    IN Renamed(cand.deleted_path, cand.added_path, st[1], st[2])

\* faulty variant: the commit leaves the deleted path in the pool
claim_deleted_keeps(deleted, cand) == deleted

\* line 84: the deleted pool after a commit
claim_deleted(deleted, cand) == deleted \ {cand.deleted_path}

\* one turn of the loop of lines 67-86
ResolveRenames ==
    /\ pc = "resolve"
    /\ cursor <= Len(rename_candidates)
    /\ LET cand == rename_candidates[cursor]
       IN IF unclaimed(cand, final_added_paths, deleted_paths)
          THEN IF commit_indexable(cand)
               THEN /\ results' = Append(results, renamed_record(cand))
                    /\ final_added_paths' = final_added_paths \ {cand.added_path}
                    /\ deleted_paths' = claim_deleted(deleted_paths, cand)
                    /\ cursor' = cursor + 1
                    /\ pc' = pc
               ELSE /\ pc' = "panicked"
                    /\ UNCHANGED <<results, final_added_paths, deleted_paths, cursor>>
          ELSE /\ cursor' = cursor + 1
               /\ UNCHANGED <<results, final_added_paths, deleted_paths, pc>>
    /\ UNCHANGED <<inputs, added_paths, common_paths, rename_candidates>>

\* ---------------------------------------------------------------- 4. copies
\* lines 104-116: the best source above the threshold, in iteration order
RECURSIVE best_copy_source(_, _, _, _)
best_copy_source(best_src, best_score, target_content, order) ==
    IF order = << >> THEN best_src
    ELSE LET src == Head(order)
             source_content == source_lookup(old_files, src)
             score == calculate_similarity(source_content[1], target_content)
         IN IF source_content # None /\ ScoreGT(score, best_score)
            THEN best_copy_source(Some(src), score, target_content, Tail(order))
            ELSE best_copy_source(best_src, best_score, target_content, Tail(order))

\* line 120
is_copy(src, added_path) == src # added_path

\* the filter_map closure of lines 97-132
check_copy(added_path, sorder) ==
    LET target_content == new_files[added_path]
        best_src == best_copy_source(None, Threshold, target_content, sorder)
    IN IF best_src # None /\ is_copy(best_src[1], added_path)
       THEN LET st == calculate_diff_stats(old_files[best_src[1]], target_content)
            IN <<Copied(best_src[1], added_path, st[1], st[2])>>
       ELSE << >>

\* faulty variant: a copy also takes its src out of the Deleted pool
claim_copies_consuming(final_added, deleted, copy_results) ==
    <<final_added \ {copy_results[i].dest : i \in DOMAIN copy_results},
      deleted \ {copy_results[i].src : i \in DOMAIN copy_results}>>

\* faulty variant: a copy leaves its dest in the Added pool
claim_copies_keeps_dest(final_added, deleted, copy_results) ==
    <<final_added, deleted>>

\* lines 136-141: what the copies claim, as <<final_added_paths, deleted_paths>>:
\* each copy takes its dest out of the Added pool and nothing out of the
\* Deleted pool
claim_copies(final_added, deleted, copy_results) ==
    <<final_added \ {copy_results[i].dest : i \in DOMAIN copy_results}, deleted>>

CheckCopies ==
    /\ pc = "resolve"
    /\ cursor > Len(rename_candidates)
    /\ IF \E a \in final_added_paths : a \notin DOMAIN new_files
       THEN /\ pc' = "panicked"
            /\ UNCHANGED <<results, final_added_paths, deleted_paths>>
       ELSE /\ \E forder \in Perms(final_added_paths), sorder \in Perms(DOMAIN old_files) :
                  LET copy_results == FlatMap(LAMBDA a : check_copy(a, sorder), forder)
                      pools == claim_copies(final_added_paths, deleted_paths, copy_results)
                  IN /\ results' = results \o copy_results
                     /\ final_added_paths' = pools[1]
                     /\ deleted_paths' = pools[2]
            /\ pc' = "finalize"
    /\ UNCHANGED <<inputs, added_paths, common_paths, rename_candidates, cursor>>

\* ---------------------------------------------------------------- 5. finalize
\* lines 146-152
flush_added(p) ==
    <<Added(p, IF p \in DOMAIN new_files THEN LineCount(new_files[p]) ELSE 0)>>

\* faulty variant: the line count looked up in the new snapshot
flush_deleted_from_new(p) ==
    <<Deleted(p, IF p \in DOMAIN new_files THEN LineCount(new_files[p]) ELSE 0)>>

\* lines 158-164
flush_deleted(p) ==
    <<Deleted(p, IF p \in DOMAIN old_files THEN LineCount(old_files[p]) ELSE 0)>>

\* lines 169-173: path_a.cmp(path_b) = Less
target_ascending(a, b) == get_sort_key(a) < get_sort_key(b)

\* faulty variant: the list returned as assembled
sort_results_skipped(rs) == rs

sort_results(rs) == StableSort(target_ascending, rs)

Finalize ==
    /\ pc = "finalize"
    /\ \E forder \in Perms(final_added_paths), dorder \in Perms(deleted_paths) :
          results' = sort_results(results \o FlatMap(flush_added, forder)
                                          \o FlatMap(flush_deleted, dorder))
    /\ pc' = "done"
    /\ UNCHANGED <<inputs, added_paths, deleted_paths, common_paths,
                   rename_candidates, final_added_paths, cursor>>

\* ---------------------------------------------------------------- one whole run
\* the walk of lines 67-86 over the candidates left
RECURSIVE resolve_all(_, _, _, _)
resolve_all(cands, rs, final_added, deleted) ==
    IF cands = << >>
    THEN [results |-> rs, final_added |-> final_added, deleted |-> deleted]
    ELSE LET cand == Head(cands)
         IN IF unclaimed(cand, final_added, deleted)
            THEN resolve_all(Tail(cands), Append(rs, renamed_record(cand)),
                             final_added \ {cand.added_path},
                             claim_deleted(deleted, cand))
            ELSE resolve_all(Tail(cands), rs, final_added, deleted)

\* compute_diff when every hash set and map iterates in ascending path order
compute_diff_ascending ==
    LET new_paths == DOMAIN new_files
        added == new_paths \ old_manifest
        deleted == old_manifest \ new_paths
        common == Ascending(old_manifest \cap new_paths)
        mods == FlatMap(check_modification, common)
        cands == StableSort(score_descending,
                            score_renames(Ascending(added), Ascending(deleted)))
        w == resolve_all(cands, mods, added, deleted)
        sorder == Ascending(DOMAIN old_files)
        copy_results == FlatMap(LAMBDA a : check_copy(a, sorder),
                                Ascending(w.final_added))
        pools == claim_copies(w.final_added, w.deleted, copy_results)
    IN sort_results(w.results \o copy_results
                    \o FlatMap(flush_added, Ascending(pools[1]))
                    \o FlatMap(flush_deleted, Ascending(pools[2])))

Next ==
    \/ Classify
    \/ CheckModifications
    \/ ScoreRenames
    \/ SortCandidates
    \/ ResolveRenames
    \/ CheckCopies
    \/ Finalize

Spec == Init /\ [][Next]_vars

\* snapshots around the threshold
SpecHalf == InitWith(Paths, HalfTexts) /\ [][Next]_vars

\* the inputs main.rs builds (lines 64-98): the old snapshot holds the content
\* of every manifest path, and of no other
InitMain ==
    /\ InitWith(1..WidePaths, WideTexts)
    /\ DOMAIN old_files = old_manifest

SpecMain == InitMain /\ [][Next]_vars

\* snapshots that differ by a trailing newline only
SpecTrail == InitWith(Paths, TrailTexts) /\ [][Next]_vars

\* snapshots whose byte lengths differ by more than half
SpecReject == InitWith(Paths, RejectTexts) /\ [][Next]_vars

\* ---------------------------------------------------------------- properties
Done == pc = "done"

KeysAndManifest == DOMAIN new_files \cup old_manifest
CommonSet == old_manifest \cap DOMAIN new_files

IsKind(i, k) == results[i].kind = k
Indices(k) == {i \in DOMAIN results : IsKind(i, k)}

\* the record names the path, in any role
Mentions(r, p) ==
    CASE r.kind \in {"Added", "Deleted", "Modified"} -> r.path = p
      [] r.kind = "Renamed" -> r.old = p \/ r.new = p
      [] r.kind = "Copied" -> r.src = p \/ r.dest = p

\* the record reports on the path: its target, or the old side of a rename
Reports(r, p) ==
    CASE r.kind \in {"Added", "Deleted", "Modified"} -> r.path = p
      [] r.kind = "Renamed" -> r.old = p \/ r.new = p
      [] r.kind = "Copied" -> r.dest = p

Mentioning(p) == {i \in DOMAIN results : Mentions(results[i], p)}
Reporting(p) == {i \in DOMAIN results : Reports(results[i], p)}

\* a Common path whose two contents are present and differ
ChangedCommon(p) ==
    /\ p \in CommonSet
    /\ p \in DOMAIN old_files
    /\ old_files[p] # new_files[p]

\* C1 as stated: in the output, every path of (new-snapshot keys \cup manifest)
\* appears in exactly one record, a Copied record's src counted as an appearance.
C1_ExactlyOneRecordPerPath ==
    Done => \A p \in KeysAndManifest : Cardinality(Mentioning(p)) = 1

\* C1 amended: in the output, every path of (new-snapshot keys \cup manifest) is
\* reported by at most one record (as an Added/Deleted/Modified path, an endpoint
\* of a Renamed record or the dest of a Copied record; a Copied src is not
\* counted): by exactly one, unless it is a Common path that is unchanged or
\* has no old content, which no record reports.
C1_AtMostOneRecordPerPath ==
    Done => \A p \in KeysAndManifest :
               Cardinality(Reporting(p)) =
                   IF p \in CommonSet /\ ~ChangedCommon(p) THEN 0 ELSE 1

\* C1 witness: an output with a Copied record whose src is an unchanged Common
\* path (reported by no record) beside a Deleted record.
C1_Witness ==
    /\ Done
    /\ \E i \in Indices("Copied") :
          /\ results[i].src \in CommonSet
          /\ ~ChangedCommon(results[i].src)
    /\ Indices("Deleted") # {}

\* C2: at every point of the run no two Renamed records share an old path or a
\* new path, the old path of a Renamed record is out of the Deleted pool and its
\* new path out of the Added pool, and no Deleted record names the old path of
\* a Renamed record.
C2_RenamesShareNoEndpoint ==
    /\ \A i, j \in Indices("Renamed") :
          i # j => /\ results[i].old # results[j].old
                   /\ results[i].new # results[j].new
    /\ \A i \in Indices("Renamed") :
          /\ results[i].old \notin deleted_paths
          /\ pc \in {"resolve", "finalize"} => results[i].new \notin final_added_paths
          /\ \A j \in Indices("Deleted") : results[j].path # results[i].old

\* C2 witness: the walk has committed a rename and the next candidate asks for
\* the deleted path that rename consumed.
C2_Witness ==
    /\ pc = "resolve"
    /\ cursor \in DOMAIN rename_candidates
    /\ \E i \in Indices("Renamed") :
          rename_candidates[cursor].deleted_path = results[i].old

\* C3 as stated: the list compute_diff returns is the same whatever order the
\* hash sets and maps iterate in; it is the list of the run that iterates them
\* all in ascending order.
C3_Determinism ==
    Done => results = compute_diff_ascending

\* C4 as stated: a manifest path in neither snapshot yields no Deleted record,
\* and a Common path missing from the old snapshot yields no Modified record.
C4_MissingContentYieldsNoRecord ==
    Done => \A p \in KeysAndManifest :
               p \notin DOMAIN old_files /\ p \in old_manifest
                   => Reporting(p) = {}

\* C5: compute_diff never panics: every candidate the walk indexes with names
\* an old path and a new path whose contents are present, every score the sort
\* compares is a number, every Added path indexes a present new content, every
\* Copied src has an old content, and the run is always in one of the phases
\* that lead to the returned list.
C5_NeverPanics ==
    /\ pc # "panicked"
    /\ added_paths \cup final_added_paths \subseteq DOMAIN new_files
    /\ \A i \in DOMAIN rename_candidates :
          /\ commit_indexable(rename_candidates[i])
          /\ comparable(rename_candidates[i].score)
    /\ \A i \in Indices("Copied") : results[i].src \in DOMAIN old_files
    /\ pc \in {"classify", "modifications", "score", "sort", "resolve",
               "finalize", "done"}
    /\ cursor \in 0..(Len(rename_candidates) + 1)

\* C5 witness: a returned list with a Renamed record, for a manifest that names
\* a path the old snapshot has no content for.
C5_Witness ==
    /\ Done
    /\ ~(old_manifest \subseteq DOMAIN old_files)
    /\ Indices("Renamed") # {}
\* C6: a copy consumes nothing: in the output, a Copied record's src that is a
\* Deleted path (in the manifest, not in the new snapshot) and is the old side
\* of no Renamed record is also the path of a Deleted record.
C6_CopyLeavesSourceDeleted ==
    Done => \A i \in Indices("Copied") :
               LET s == results[i].src
               IN (/\ s \in old_manifest \ DOMAIN new_files
                   /\ \A j \in Indices("Renamed") : results[j].old # s)
                  => \E j \in Indices("Deleted") : results[j].path = s

\* C6 witness: an output with a Copied record whose src is the path of a
\* Deleted record.
C6_Witness ==
    /\ Done
    /\ \E i \in Indices("Copied"), j \in Indices("Deleted") :
          results[i].src = results[j].path

\* C6, second case: an output in which one old path is the src of two Copied
\* records.
C6_SharedSource ==
    /\ Done
    /\ \E i, j \in Indices("Copied") : i # j /\ results[i].src = results[j].src

\* C7: when the two snapshots are the same map and the manifest is its key set,
\* compute_diff returns the empty list.
C7_Idempotence ==
    (Done /\ new_files = old_files /\ old_manifest = DOMAIN old_files)
        => results = << >>

\* C7 witness: the empty list returned for two identical snapshots of at least
\* two files.
C7_Witness ==
    /\ Done
    /\ new_files = old_files
    /\ old_manifest = DOMAIN old_files
    /\ Cardinality(DOMAIN new_files) >= 2
    /\ results = << >>

\* the snapshots share no path, the manifest is the old key set and no old
\* content is more than 0.5 similar to a new content
DisjointDissimilar ==
    /\ DOMAIN new_files \cap DOMAIN old_files = {}
    /\ old_manifest = DOMAIN old_files
    /\ \A o \in DOMAIN old_files, n \in DOMAIN new_files :
          ~ScoreGT(calculate_similarity(old_files[o], new_files[n]), Threshold)

\* C8: for disjoint, dissimilar snapshots the output is exactly one
\* Deleted(p, line count of old[p]) per old path and one
\* Added(p, line count of new[p]) per new path.
C8_DisjointYieldsAddedAndDeleted ==
    (Done /\ DisjointDissimilar) =>
        /\ Len(results) = Cardinality(DOMAIN old_files) + Cardinality(DOMAIN new_files)
        /\ Range(results) =
               {Deleted(p, LineCount(old_files[p])) : p \in DOMAIN old_files}
               \cup {Added(p, LineCount(new_files[p])) : p \in DOMAIN new_files}

\* C8 witness: such an output with an Added and a Deleted record whose contents
\* are both non-empty.
C8_Witness ==
    /\ Done
    /\ DisjointDissimilar
    /\ \E i \in Indices("Added"), j \in Indices("Deleted") :
          results[i].count > 0 /\ results[j].count > 0

\* C9: the returned list is in strictly ascending order of target path, so no
\* two records have the same target path.
C9_SortedByTarget ==
    Done => \A i, j \in DOMAIN results :
               i < j => get_sort_key(results[i]) < get_sort_key(results[j])

\* C9 witness: a returned list of three records of three kinds.
C9_Witness ==
    /\ Done
    /\ Len(results) = 3
    /\ Cardinality({results[i].kind : i \in DOMAIN results}) = 3

\* C10: every Renamed record has its old path in (manifest - new keys), its new
\* path in (new keys - manifest), and old and new contents whose similarity is
\* strictly above 0.5.
C10_RenameAboveThreshold ==
    \A i \in Indices("Renamed") :
        LET r == results[i]
        IN /\ r.old \in old_manifest \ DOMAIN new_files
           /\ r.new \in DOMAIN new_files \ old_manifest
           /\ r.old \in DOMAIN old_files
           /\ ScoreGT(calculate_similarity(old_files[r.old], new_files[r.new]),
                      Threshold)

\* C10 witness: an output with a Renamed record and an Added record whose
\* content is exactly 0.5 similar to the content of the rename's old path.
C10_Witness ==
    /\ Done
    /\ \E i \in Indices("Renamed"), j \in Indices("Added") :
          calculate_similarity(old_files[results[i].old],
                               new_files[results[j].path]) = Threshold
\* ---------------------------------------------------------------- the walk
\* the candidates the walk has been through
Walked ==
    IF pc \in {"resolve", "finalize", "done"} THEN 1..(cursor - 1) ELSE {}

Cand(i) == rename_candidates[i]

\* the walk committed candidate i: a Renamed record joins its two paths
Committed(i) ==
    \E k \in Indices("Renamed") :
        /\ results[k].new = Cand(i).added_path
        /\ results[k].old = Cand(i).deleted_path

\* the committed candidates before i that hold one of the paths of i
ClaimedBefore(i) ==
    {j \in 1..(i - 1) :
        /\ Committed(j)
        /\ \/ Cand(j).added_path = Cand(i).added_path
           \/ Cand(j).deleted_path = Cand(i).deleted_path}

\* C11 as stated: a candidate of the walk is committed exactly when neither of
\* its paths was claimed before its turn, and a skipped candidate lost a path
\* to a candidate with a strictly higher score.
C11_SkippedByHigherScore ==
    \A i \in Walked :
        /\ Committed(i) <=> ClaimedBefore(i) = {}
        /\ ~Committed(i) =>
              \E j \in ClaimedBefore(i) : ScoreGT(Cand(j).score, Cand(i).score)

\* C11 amended: a candidate of the walk is committed exactly when neither of
\* its paths was claimed before its turn, and a skipped candidate lost a path
\* to a candidate earlier in the sorted list, whose score is at least as high
\* (the two may tie).
C11_SkippedByEarlierCandidate ==
    \A i \in Walked :
        /\ Committed(i) <=> ClaimedBefore(i) = {}
        /\ ~Committed(i) =>
              \A j \in ClaimedBefore(i) : ~ScoreGT(Cand(i).score, Cand(j).score)

\* C11 witness: the walk has skipped a candidate whose deleted path went to a
\* candidate with a strictly higher score.
C11_Witness ==
    \E i \in Walked :
        /\ ~Committed(i)
        /\ \E j \in ClaimedBefore(i) : ScoreGT(Cand(j).score, Cand(i).score)
\* ---------------------------------------------------------------- copies
AddedSet == DOMAIN new_files \ old_manifest
DeletedSet == old_manifest \ DOMAIN new_files

RenamedNew == {results[k].new : k \in Indices("Renamed")}
RenamedOld == {results[k].old : k \in Indices("Renamed")}

\* the Added paths rename resolution left unclaimed
LeftForCopies == AddedSet \ RenamedNew

CopyScore(src, a) == calculate_similarity(old_files[src], new_files[a])

\* the keys of the old snapshot most similar to new[a], above the threshold
BestSources(a) ==
    {src \in DOMAIN old_files :
        /\ ScoreGT(CopyScore(src, a), Threshold)
        /\ \A t \in DOMAIN old_files : ~ScoreGT(CopyScore(t, a), CopyScore(src, a))}

HasCopied(src, a) ==
    \E k \in Indices("Copied") : results[k].src = src /\ results[k].dest = a

HasAdded(a) == \E k \in Indices("Added") : results[k].path = a

\* what the claim says of one unclaimed Added path a
CopiedFromBest(a) ==
    /\ \A src \in DOMAIN old_files :
          HasCopied(src, a) <=> (src \in BestSources(a) /\ src # a)
    /\ HasAdded(a) <=> ~\E src \in DOMAIN old_files : HasCopied(src, a)

\* C12 as stated: in the output, an unclaimed Added path A is the dest of
\* Copied{src: S, dest: A} exactly when S is the old-snapshot key most similar
\* to new[A] above 0.5 and S differs from A, and is reported as Added
\* otherwise; no Copied record has src = dest and the copies take nothing out
\* of the Deleted pool.
C12_CopiedFromTheBestSource ==
    Done =>
        /\ \A a \in LeftForCopies : CopiedFromBest(a)
        /\ \A k \in Indices("Copied") : results[k].src # results[k].dest
        /\ deleted_paths = DeletedSet \ RenamedOld

\* the same, for the Added paths whose most similar old key is unique
C12_HoldsWithoutTies ==
    Done =>
        /\ \A a \in LeftForCopies :
              Cardinality(BestSources(a)) <= 1 => CopiedFromBest(a)
        /\ \A k \in Indices("Copied") : results[k].src # results[k].dest
        /\ deleted_paths = DeletedSet \ RenamedOld

\* an output with a Copied record whose dest has a unique most similar old key
C12_UniqueBestReached ==
    /\ Done
    /\ \E k \in Indices("Copied") : Cardinality(BestSources(results[k].dest)) = 1
\* ---------------------------------------------------------------- fast reject
Scored == pc \in {"sort", "resolve", "finalize", "done"}

\* the pairs of non-empty texts the rename and copy searches score
ScoredPairs ==
    {<<old_files[src], new_files[a]>> :
        src \in DOMAIN old_files, a \in added_paths \cap DOMAIN new_files}

FastRejected(t) ==
    /\ t[1] # << >> /\ t[2] # << >>
    /\ t[1] # t[2]
    /\ size_disparity(t[1], t[2])

\* C13 as stated: every pair of non-empty texts that calculate_similarity
\* rejects on byte lengths (min/max < 0.5) has a line-diff score of at most
\* 0.5, so the 0.0 it returns never changes the side of the threshold.
C13_FastRejectIsPure ==
    Scored =>
        \A t \in ScoredPairs :
            FastRejected(t) => ~ScoreGT(line_diff_score(t[1], t[2]), Threshold)

\* the rejected pair surfaces in the output: an Added and a Deleted record
\* whose texts the line diff scores above the threshold
C13_RejectedRenameReached ==
    /\ Done
    /\ \E i \in Indices("Added"), j \in Indices("Deleted") :
          /\ results[j].path \in DOMAIN old_files
          /\ LET t == <<old_files[results[j].path], new_files[results[i].path]>>
             IN /\ FastRejected(t)
                /\ ScoreGT(line_diff_score(t[1], t[2]), Threshold)
                /\ calculate_similarity(t[1], t[2]) = ScoreZero
\* ---------------------------------------------------------------- modifications
ModifiedFor(p) == {k \in Indices("Modified") : results[k].path = p}

\* C14: in the output, a Common path whose content is present in both
\* snapshots has exactly one Modified record when the two contents differ in
\* any byte, a trailing newline included, and no record when they are equal;
\* a Common path is never reported by an Added, Deleted or Renamed record nor
\* as the dest of a Copied record.
C14_CommonModifiedIffDiffers ==
    Done =>
        \A p \in CommonSet :
            /\ Reporting(p) = ModifiedFor(p)
            /\ p \in DOMAIN old_files =>
                  Cardinality(ModifiedFor(p)) =
                      IF old_files[p] # new_files[p] THEN 1 ELSE 0

\* an output with a Modified record for a trailing-newline-only difference,
\* next to an unchanged Common path with no record
C14_Witness ==
    /\ Done
    /\ \E p, q \in CommonSet \cap DOMAIN old_files :
          /\ whitespace_only_diff(old_files[p], new_files[p])
          /\ Cardinality(ModifiedFor(p)) = 1
          /\ old_files[q] = new_files[q]
          /\ Reporting(q) = {}
\* ---------------------------------------------------------------- no fallback
RenameScore(d, a) == calculate_similarity(old_files[d], new_files[a])

\* the Deleted pool as classification leaves it, where the old snapshot has
\* the content
InitialDeletedPool == DeletedSet \cap DOMAIN old_files

\* the candidate joins an Added path to a best-scoring path of the initial
\* Deleted pool, above the threshold
BestOfInitialPool(c) ==
    /\ c.added_path \in AddedSet
    /\ c.deleted_path \in InitialDeletedPool
    /\ c.score = RenameScore(c.deleted_path, c.added_path)
    /\ ScoreGT(c.score, Threshold)
    /\ \A d \in InitialDeletedPool :
          ~ScoreGT(RenameScore(d, c.added_path), c.score)

\* the records that report path a as a copy or an addition
CopiedOrAdded(a) ==
    {k \in Indices("Copied") \cup Indices("Added") : get_sort_key(results[k]) = a}

\* C15: once the renames are scored, no two candidates have the same added
\* path and each candidate holds a best-scoring path of the initial Deleted
\* pool; every Renamed record is a candidate the walk committed; and in the
\* output an Added path whose candidate was not committed is the new side of
\* no Renamed record and is reported by exactly one Copied or Added record.
C15_NoFallback ==
    Scored =>
        /\ \A i, j \in DOMAIN rename_candidates :
              i # j => Cand(i).added_path # Cand(j).added_path
        /\ \A i \in DOMAIN rename_candidates : BestOfInitialPool(Cand(i))
        /\ \A k \in Indices("Renamed") :
              \E i \in Walked : /\ results[k].new = Cand(i).added_path
                                /\ results[k].old = Cand(i).deleted_path
        /\ Done =>
              \A i \in DOMAIN rename_candidates :
                  ~Committed(i) =>
                      /\ Cand(i).added_path \notin RenamedNew
                      /\ Cardinality(CopiedOrAdded(Cand(i).added_path)) = 1

\* C15 witness: an output in which a candidate lost its deleted path to
\* another Added path and is reported as Copied or Added, while a path still
\* reported as Deleted is more than 0.5 similar to it.
C15_Witness ==
    /\ Done
    /\ \E i \in DOMAIN rename_candidates :
          /\ ~Committed(i)
          /\ Cand(i).deleted_path \in RenamedOld
          /\ CopiedOrAdded(Cand(i).added_path) # {}
          /\ \E j \in Indices("Deleted") :
                /\ results[j].path \in DOMAIN old_files
                /\ ScoreGT(RenameScore(results[j].path, Cand(i).added_path),
                           Threshold)
\* ---------------------------------------------------------------- coverage
\* the Added, Renamed and Copied records whose target is path a
ArrivalsAt(a) ==
    {k \in Indices("Added") \cup Indices("Renamed") \cup Indices("Copied") :
        get_sort_key(results[k]) = a}

\* the Deleted records for path d and the Renamed records whose old side is d
DeparturesFrom(d) ==
    {k \in Indices("Deleted") : results[k].path = d}
    \cup {k \in Indices("Renamed") : results[k].old = d}

\* C16: in the output, each path of (new keys - manifest) is the target of
\* exactly one Added, Renamed or Copied record, each path of
\* (manifest - new keys) is the path of a Deleted record or the old side of a
\* Renamed record, exactly one of them, and every record's target path is in
\* (new keys \cup manifest).
C16_ChangedPathsCovered ==
    Done =>
        /\ \A a \in AddedSet : Cardinality(ArrivalsAt(a)) = 1
        /\ \A d \in DeletedSet : Cardinality(DeparturesFrom(d)) = 1
        /\ \A k \in DOMAIN results : get_sort_key(results[k]) \in KeysAndManifest

\* C16 witness: an output with a Renamed and a Copied record that covers
\* three changed paths.
C16_Witness ==
    /\ Done
    /\ Indices("Renamed") # {}
    /\ Indices("Copied") # {}
    /\ Cardinality(AddedSet \cup DeletedSet) = 3

\* C16, second case: a Deleted record for a manifest path the old snapshot
\* has no content for, beside a Renamed record.
C16_DeletedWithoutContent ==
    /\ Done
    /\ Indices("Renamed") # {}
    /\ \E k \in Indices("Deleted") : results[k].path \notin DOMAIN old_files
====
